---- MODULE Spec2Model ----
(***************************************************************************)
(* Rainfall / river-level observatory (nivel-guaiba-estacio).              *)
(*                                                                         *)
(*   Spec      app.py                   lag-correlation dashboard          *)
(*   SpecProc  1_processamento_dados.py file based consolidation script    *)
(*   SpecApi   process_data.py          API based consolidation script     *)
(*                                                                         *)
(* Numbers.  Readings are floats in the code.  The model keeps them as     *)
(* exact integers (rain in mm, level in its source unit); a daily mean is  *)
(* the exact reduced fraction <<p, q>>; a Pearson coefficient r is kept as *)
(* the exact reduced fraction of sgn(r) * r^2, which orders coefficients   *)
(* exactly as r does.  Floating point rounding is not modelled.            *)
(***************************************************************************)
EXTENDS Integers, Sequences, FiniteSets, TLC

VARIABLES
    \* ---- app.py
    pc,                 \* position of the dashboard script
    df_corr,            \* the frame handed to calcular_correlacao_com_lag
    max_lag,            \* its max_lag argument
    lag,                \* the loop variable of line 43
    correlacoes,        \* the dict being filled, as its items in insertion order
    acumuladas,         \* lag -> the chuva_acumulada series of that iteration
    todas_correlacoes,  \* the returned dict, as its items in insertion order
    melhor_lag,
    melhor_corr,
    branch,             \* which arm of `if melhor_lag:` the dashboard took
    chuva_plot          \* df_plot_corr['Chuva_Acumulada']

VARIABLES
    \* ---- 1_processamento_dados.py
    pc_proc,            \* position of the script
    csv_rio,            \* rows of output.csv as read (Timestamp, Medicao_str)
    df_rio,             \* the parsed frame (Timestamp, Nivel_m)
    df_rio_diario,
    csv_clima,          \* rows of the two INMET files, concatenated
    df_clima,           \* the parsed frame (Timestamp, Precipitacao_mm)
    df_clima_diario,
    df_final,
    arquivo_saida       \* dados_consolidados_guaiba_chuva.csv, None until written

VARIABLES
    \* ---- process_data.py
    pc_api,             \* position of the script
    buscas,             \* what the fetches of lines 139-142 returned, in order
    json_chuva,         \* rows of the two rain frames, concatenated
    df_chuva,           \* the typed rain frame (data, precipitacao_mm)
    csv_nivel,          \* rows of the two level frames, concatenated
    df_nivel,           \* the typed level frame (data, nivel_cm)
    df_combinado,
    df_diario,
    df_resultado,
    arquivo_comparativo \* dados_comparativos_2024_2025.csv, None until written

appVars == <<pc, df_corr, max_lag, lag, correlacoes, acumuladas, todas_correlacoes,
             melhor_lag, melhor_corr, branch, chuva_plot>>

procVars == <<pc_proc, csv_rio, df_rio, df_rio_diario, csv_clima, df_clima,
              df_clima_diario, df_final, arquivo_saida>>

apiVars == <<pc_api, buscas, json_chuva, df_chuva, csv_nivel, df_nivel,
             df_combinado, df_diario, df_resultado, arquivo_comparativo>>

vars == <<appVars, procVars, apiVars>>

-----------------------------------------------------------------------------
(* Bounds and input domains *)

MaxDay == 4       \* dates of the frame given to the lag analysis: 1..MaxDay
MaxLag == 3       \* largest max_lag tried
MaxDia == 3       \* calendar days of the raw readings: 1..MaxDia
MaxRows == 2      \* data rows of one raw source
MaxStamp == 3     \* instants of the API readings: 1..MaxStamp

NumBuscas == 4    \* the fetches of process_data.py

Days == 1..MaxDay
NivelValues == 0..2
ChuvaValues == 0..1

\* A value that may be missing is a tuple of length 0 or 1: <<>> is pandas'
\* NaN / Python's None, <<v>> is the value v.  (A coefficient is the pair
\* <<p, q>>, so a missing coefficient is <<>> as well.)
NaN == <<>>
None == <<>>
Num(v) == <<v>>
Val(c) == c[1]

-----------------------------------------------------------------------------
(* Arithmetic helpers *)

Abs(x) == IF x < 0 THEN -x ELSE x

Sgn(x) == IF x < 0 THEN -1 ELSE IF x = 0 THEN 0 ELSE 1

RECURSIVE GCD(_, _)
GCD(a, b) == IF b = 0 THEN a ELSE GCD(b, a % b)

\* the fraction p/q (q > 0) in lowest terms
Frac(p, q) ==
    LET g == GCD(Abs(p), q)
    IN  <<p \div g, q \div g>>

FracLess(a, b) == a[1] * b[2] < b[1] * a[2]

\* sum of the plain integers s[lo..hi]
RECURSIVE SumRange(_, _, _)
SumRange(s, lo, hi) ==
    IF lo > hi THEN 0 ELSE s[hi] + SumRange(s, lo, hi - 1)

\* the elements of a finite set of integers in ascending order
RECURSIVE Ascending(_)
Ascending(S) ==
    IF S = {} THEN <<>>
    ELSE LET m == CHOOSE x \in S : \A y \in S : x <= y
         IN  <<m>> \o Ascending(S \ {m})

-----------------------------------------------------------------------------
(* pandas primitives used by app.py *)

Column(df, c) == [i \in 1..Len(df) |-> df[i][c]]

\* Series.shift(1): positional, the first row becomes missing
Shift1(s) == [i \in 1..Len(s) |-> IF i = 1 THEN NaN ELSE s[i - 1]]

\* Series.rolling(window=w).sum(): positional window of the w rows ending at
\* row i; min_periods defaults to w, so a window with fewer than w numeric
\* entries gives a missing value
RollingSum(s, w) ==
    [i \in 1..Len(s) |->
        IF i < w THEN NaN
        ELSE IF \E j \in (i - w + 1)..i : s[j] = NaN THEN NaN
        ELSE Num(SumRange([j \in 1..Len(s) |-> IF s[j] = NaN THEN 0 ELSE Val(s[j])],
                          i - w + 1, i))]

\* df['Precipitacao_mm'].shift(1).rolling(window=lag).sum()
ChuvaAcumulada(df, k) == RollingSum(Shift1(Column(df, "Precipitacao_mm")), k)

\* a correlation that reports 0 instead of a missing value for a flat series
CorrZeroOnFlat(x, y) ==
    LET ok(i) == x[i] # NaN /\ y[i] # NaN
        one == [i \in 1..Len(x) |-> IF ok(i) THEN 1 ELSE 0]
        xs  == [i \in 1..Len(x) |-> IF ok(i) THEN Val(x[i]) ELSE 0]
        ys  == [i \in 1..Len(x) |-> IF ok(i) THEN Val(y[i]) ELSE 0]
        xx  == [i \in 1..Len(x) |-> IF ok(i) THEN Val(x[i]) * Val(x[i]) ELSE 0]
        yy  == [i \in 1..Len(x) |-> IF ok(i) THEN Val(y[i]) * Val(y[i]) ELSE 0]
        xy  == [i \in 1..Len(x) |-> IF ok(i) THEN Val(x[i]) * Val(y[i]) ELSE 0]
        L   == Len(x)
        n   == SumRange(one, 1, L)
        sx  == SumRange(xs, 1, L)
        sy  == SumRange(ys, 1, L)
        num == n * SumRange(xy, 1, L) - sx * sy
        dx  == n * SumRange(xx, 1, L) - sx * sx
        dy  == n * SumRange(yy, 1, L) - sy * sy
    IN  IF n < 1 THEN NaN
        ELSE IF dx = 0 \/ dy = 0 THEN <<0, 1>>
        ELSE Frac(Sgn(num) * num * num, dx * dy)

\* Series.corr(other): Pearson over the rows where both are numeric; missing
\* (NaN) with fewer than one pair or a zero variance (0/0 in np.corrcoef)
Corr(x, y) ==
    LET ok(i) == x[i] # NaN /\ y[i] # NaN
        one == [i \in 1..Len(x) |-> IF ok(i) THEN 1 ELSE 0]
        xs  == [i \in 1..Len(x) |-> IF ok(i) THEN Val(x[i]) ELSE 0]
        ys  == [i \in 1..Len(x) |-> IF ok(i) THEN Val(y[i]) ELSE 0]
        xx  == [i \in 1..Len(x) |-> IF ok(i) THEN Val(x[i]) * Val(x[i]) ELSE 0]
        yy  == [i \in 1..Len(x) |-> IF ok(i) THEN Val(y[i]) * Val(y[i]) ELSE 0]
        xy  == [i \in 1..Len(x) |-> IF ok(i) THEN Val(x[i]) * Val(y[i]) ELSE 0]
        L   == Len(x)
        n   == SumRange(one, 1, L)
        sx  == SumRange(xs, 1, L)
        sy  == SumRange(ys, 1, L)
        num == n * SumRange(xy, 1, L) - sx * sy
        dx  == n * SumRange(xx, 1, L) - sx * sx
        dy  == n * SumRange(yy, 1, L) - sy * sy
    IN  IF n < 1 THEN NaN
        ELSE IF dx = 0 \/ dy = 0 THEN NaN
        ELSE Frac(Sgn(num) * num * num, dx * dy)

NotNa(v) == v # NaN

-----------------------------------------------------------------------------
(* Raw text of the sources *)

\* A value field is the tuple of its characters.  A number is kept in tenths
\* of its unit, so "1,5" is 15; the inputs carry at most one decimal place.
Digits == <<"0", "1", "2", "3", "4", "5", "6", "7", "8", "9">>

IsDigit(c) == \E i \in 1..Len(Digits) : Digits[i] = c

DigitValue(c) == (CHOOSE i \in 1..Len(Digits) : Digits[i] = c) - 1

\* str.replace(pat, rep, regex=False): every occurrence, left to right
RECURSIVE StrReplace(_, _, _)
StrReplace(txt, pat, rep) ==
    IF Len(txt) < Len(pat) \/ txt = <<>> THEN txt
    ELSE IF SubSeq(txt, 1, Len(pat)) = pat
         THEN rep \o StrReplace(SubSeq(txt, Len(pat) + 1, Len(txt)), pat, rep)
         ELSE <<txt[1]>> \o StrReplace(Tail(txt), pat, rep)

\* the value of a string of digits
RECURSIVE DigitsValue(_)
DigitsValue(txt) ==
    IF txt = <<>> THEN 0
    ELSE 10 * DigitsValue(SubSeq(txt, 1, Len(txt) - 1)) + DigitValue(txt[Len(txt)])

\* whether float() reads the text: digits with at most one decimal point
IsNumeral(txt) ==
    /\ \E i \in 1..Len(txt) : IsDigit(txt[i])
    /\ \A i \in 1..Len(txt) : IsDigit(txt[i]) \/ txt[i] = "."
    /\ Cardinality({i \in 1..Len(txt) : txt[i] = "."}) <= 1

\* the number a numeral spells, in tenths
NumeralValue(txt) ==
    LET dots == {i \in 1..Len(txt) : txt[i] = "."}
        dot  == IF dots = {} THEN Len(txt) + 1 ELSE CHOOSE i \in dots : TRUE
        int  == DigitsValue(SubSeq(txt, 1, dot - 1))
        frac == IF dot + 1 <= Len(txt) THEN DigitValue(txt[dot + 1]) ELSE 0
    IN  10 * int + frac

\* pd.to_numeric(errors='coerce') on a field that is already missing or is
\* text: text that is no numeral becomes NaN
ToNumeric(cell) ==
    IF cell = NaN THEN NaN
    ELSE IF IsNumeral(Val(cell)) THEN Num(NumeralValue(Val(cell)))
    ELSE NaN

\* A timestamp field is kept as what it spells: a calendar day (the time of
\* day is dropped where only the date is used) or an instant, or text that
\* the format does not match.
Stamp(d) == [texto |-> "data", quando |-> d]
Ilegivel == [texto |-> "ilegivel", quando |-> 0]

\* whether pd.to_datetime(..., format=...) accepts the field (it raises
\* ValueError otherwise: errors='raise' is the default)
Parsable(t) == t.texto = "data"

\* an arbitrary enumeration of a finite set
RECURSIVE SetToSeq(_)
SetToSeq(S) ==
    IF S = {} THEN <<>>
    ELSE LET x == CHOOSE y \in S : TRUE
         IN  <<x>> \o SetToSeq(S \ {x})

\* the tables of 1..MaxRows rows over the row set R, up to row order (no
\* step depends on the order of the rows of a source)
Tables(R) ==
    LET opts == SetToSeq(R)
    IN  UNION {
            { [i \in 1..n |-> opts[ix[i]]] :
                ix \in {f \in [1..n -> 1..Len(opts)] :
                            \A i \in 1..(n - 1) : f[i] <= f[i + 1]} }
            : n \in 1..MaxRows }

StampTexts == {Stamp(d) : d \in 1..MaxDia} \cup {Ilegivel}

\* Medicao_str of output.csv: "1,5 m", "3 m", and a field that is no number
MedicaoTexts ==
    { Num(<<"1", ",", "5", " ", "m">>), Num(<<"3", " ", "m">>), Num(<<"-">>) }

\* the INMET precipitation field: "0", "2,4", and a field that is no number
PrecipitacaoTexts == { Num(<<"0">>), Num(<<"2", ",", "4">>), Num(<<"-">>) }

RioFiles == Tables([Timestamp : StampTexts, Medicao_str : MedicaoTexts])

ClimaFiles == Tables([Timestamp : StampTexts, Precipitacao_mm : PrecipitacaoTexts])

-----------------------------------------------------------------------------
(* pandas primitives used by the consolidation scripts *)

MinOf(S) == CHOOSE x \in S : \A y \in S : x <= y
MaxOf(S) == CHOOSE x \in S : \A y \in S : x >= y

\* the daily bins of resample('D'): every calendar day from the first to the
\* last day of the index, observed or not
DailyBins(dias) ==
    IF dias = {} THEN <<>>
    ELSE [i \in 1..(MaxOf(dias) - MinOf(dias) + 1) |-> MinOf(dias) + i - 1]

\* the numeric entries of column c on the rows of obs that fall on day d
\* (dias[i] is the day of row i), as 0/1 weights and weighted values
CountOn(obs, c, d, dias) ==
    SumRange([i \in 1..Len(obs) |->
                 IF dias[i] = d /\ obs[i][c] # NaN THEN 1 ELSE 0], 1, Len(obs))

TotalOn(obs, c, d, dias) ==
    SumRange([i \in 1..Len(obs) |->
                 IF dias[i] = d /\ obs[i][c] # NaN THEN Val(obs[i][c]) ELSE 0],
             1, Len(obs))

\* .resample('D').mean() of one bin: NaN entries are skipped, an empty bin
\* is NaN
MeanOn(obs, c, d, dias) ==
    IF CountOn(obs, c, d, dias) = 0 THEN NaN
    ELSE Frac(TotalOn(obs, c, d, dias), CountOn(obs, c, d, dias))

\* .resample('D').sum() of one bin: NaN entries are skipped, an empty bin
\* sums to 0 (min_count = 0)
SumOn(obs, c, d, dias) == Num(TotalOn(obs, c, d, dias))

\* DataFrame.dropna(): the rows with no missing entry in the columns cols
Dropna(df, cols) == SelectSeq(df, LAMBDA r : \A c \in cols : r[c] # NaN)

-----------------------------------------------------------------------------
(* 1_processamento_dados.py *)

\* the calendar day of a row of a timestamp-indexed frame
DiaDe(r) == r.Timestamp

\* the day of every row, as resample('D') bins them
DiasDe(df) == [i \in 1..Len(df) |-> DiaDe(df[i])]

\* lines 34-35: strip " m", decimal comma to point, to_numeric(coerce)
NivelDe(medicao) ==
    ToNumeric(Num(StrReplace(StrReplace(Val(medicao), <<" ", "m">>, <<>>),
                             <<",">>, <<".">>)))

\* lines 45: df_rio['Nivel_m'].resample('D').mean().to_frame()
RioDiario(df) ==
    LET bins == DailyBins({DiaDe(df[i]) : i \in 1..Len(df)})
    IN  [b \in 1..Len(bins) |->
            [Timestamp |-> bins[b], Nivel_m |-> MeanOn(df, "Nivel_m", bins[b], DiasDe(df))]]

\* line 92: .str.replace(',', '.').astype(float) raises ValueError on text
\* that is no number
AstypeFloatRaises(precip) ==
    ~IsNumeral(StrReplace(Val(precip), <<",">>, <<".">>))

PrecipitacaoDe(precip) ==
    Num(NumeralValue(StrReplace(Val(precip), <<",">>, <<".">>)))

\* line 99: df_clima['Precipitacao_mm'].resample('D').sum().to_frame()
ClimaDiario(df) ==
    LET bins == DailyBins({DiaDe(df[i]) : i \in 1..Len(df)})
    IN  [b \in 1..Len(bins) |->
            [Timestamp |-> bins[b],
             Precipitacao_mm |-> SumOn(df, "Precipitacao_mm", bins[b], DiasDe(df))]]

RainAt(right, d) ==
    IF \E j \in 1..Len(right) : right[j].Timestamp = d
    THEN right[CHOOSE j \in 1..Len(right) : right[j].Timestamp = d].Precipitacao_mm
    ELSE NaN

\* a join that keeps only the dates present on both sides
JoinInner(left, right) ==
    LET both == SelectSeq(left, LAMBDA r :
                    \E j \in 1..Len(right) : right[j].Timestamp = r.Timestamp)
    IN  [i \in 1..Len(both) |->
            [Timestamp |-> both[i].Timestamp, Nivel_m |-> both[i].Nivel_m,
             Precipitacao_mm |-> RainAt(right, both[i].Timestamp)]]

\* line 115: df_rio_diario.join(df_clima_diario), a left join on the index
Join(left, right) ==
    [i \in 1..Len(left) |->
        [Timestamp |-> left[i].Timestamp, Nivel_m |-> left[i].Nivel_m,
         Precipitacao_mm |-> RainAt(right, left[i].Timestamp)]]

\* line 118: df_final['Precipitacao_mm'].fillna(0, inplace=True); the in-place
\* fill reaches the frame (pandas before 3.0, which line 120 of
\* process_data.py also requires)
FillnaZero(df) ==
    [i \in 1..Len(df) |->
        [df[i] EXCEPT !.Precipitacao_mm = IF @ = NaN THEN Num(0) ELSE @]]

InitProc ==
    /\ pc_proc = "rio"
    /\ csv_rio = <<>>
    /\ df_rio = <<>>
    /\ df_rio_diario = <<>>
    /\ csv_clima = <<>>
    /\ df_clima = <<>>
    /\ df_clima_diario = <<>>
    /\ df_final = <<>>
    /\ arquivo_saida = None

IdleProc ==
    /\ pc_proc = "idle"
    /\ csv_rio = <<>>
    /\ df_rio = <<>>
    /\ df_rio_diario = <<>>
    /\ csv_clima = <<>>
    /\ df_clima = <<>>
    /\ df_clima_diario = <<>>
    /\ df_final = <<>>
    /\ arquivo_saida = None

\* line 25: pd.read_csv(caminho_rio) finds the file and reads its rows
LerRio ==
    /\ pc_proc = "rio"
    /\ csv_rio' \in RioFiles
    /\ pc_proc' = "rio_lido"
    /\ UNCHANGED <<df_rio, df_rio_diario, csv_clima, df_clima,
                   df_clima_diario, df_final, arquivo_saida>>
    /\ UNCHANGED <<appVars, apiVars>>

\* lines 25, 52-54: the file is missing; the handler prints and calls exit()
RioNaoEncontrado ==
    /\ pc_proc = "rio"
    /\ pc_proc' = "exit_rio"
    /\ UNCHANGED <<csv_rio, df_rio, df_rio_diario, csv_clima, df_clima,
                   df_clima_diario, df_final, arquivo_saida>>
    /\ UNCHANGED <<appVars, apiVars>>

\* lines 28-41: every row is cleaned and typed.  pd.to_datetime raises
\* ValueError if any Timestamp field does not match the format; the try
\* block catches FileNotFoundError only, so the script dies there.
ParseRio ==
    /\ pc_proc = "rio_lido"
    /\ IF \A i \in 1..Len(csv_rio) : Parsable(csv_rio[i].Timestamp)
       THEN /\ df_rio' = [i \in 1..Len(csv_rio) |->
                            [Timestamp |-> csv_rio[i].Timestamp.quando,
                             Nivel_m |-> NivelDe(csv_rio[i].Medicao_str)]]
            /\ pc_proc' = "rio_parseado"
       ELSE /\ df_rio' = df_rio
            /\ pc_proc' = "erro_rio"
    /\ UNCHANGED <<csv_rio, df_rio_diario, csv_clima, df_clima,
                   df_clima_diario, df_final, arquivo_saida>>
    /\ UNCHANGED <<appVars, apiVars>>

\* lines 45-48: daily mean, then the days without a value are removed
ResampleRio ==
    /\ pc_proc = "rio_parseado"
    /\ df_rio_diario' = Dropna(RioDiario(df_rio), {"Nivel_m"})
    /\ pc_proc' = "clima"
    /\ UNCHANGED <<csv_rio, df_rio, csv_clima, df_clima, df_clima_diario,
                   df_final, arquivo_saida>>
    /\ UNCHANGED <<appVars, apiVars>>

\* lines 65-69: both INMET files are found, read and concatenated.  csv_rio
\* and df_rio are not read after line 45 and are released here.
LerClima ==
    /\ pc_proc = "clima"
    /\ csv_clima' \in ClimaFiles
    /\ csv_rio' = <<>>
    /\ df_rio' = <<>>
    /\ pc_proc' = "clima_lido"
    /\ UNCHANGED <<df_rio_diario, df_clima, df_clima_diario, df_final,
                   arquivo_saida>>
    /\ UNCHANGED <<appVars, apiVars>>

\* lines 65-66, 103-105: one of the INMET files is missing
ClimaNaoEncontrado ==
    /\ pc_proc = "clima"
    /\ csv_rio' = <<>>
    /\ df_rio' = <<>>
    /\ pc_proc' = "exit_clima"
    /\ UNCHANGED <<df_rio_diario, csv_clima, df_clima, df_clima_diario,
                   df_final, arquivo_saida>>
    /\ UNCHANGED <<appVars, apiVars>>

\* lines 73-95: pd.to_datetime (line 89) and astype(float) (line 92) raise
\* ValueError on a field they cannot read; `except Exception` (lines
\* 106-108) prints and calls exit()
ParseClima ==
    /\ pc_proc = "clima_lido"
    /\ IF /\ \A i \in 1..Len(csv_clima) : Parsable(csv_clima[i].Timestamp)
          /\ \A i \in 1..Len(csv_clima) :
                ~AstypeFloatRaises(csv_clima[i].Precipitacao_mm)
       THEN /\ df_clima' = [i \in 1..Len(csv_clima) |->
                              [Timestamp |-> csv_clima[i].Timestamp.quando,
                               Precipitacao_mm |->
                                   PrecipitacaoDe(csv_clima[i].Precipitacao_mm)]]
            /\ pc_proc' = "clima_parseado"
       ELSE /\ df_clima' = df_clima
            /\ pc_proc' = "exit_clima_erro"
    /\ UNCHANGED <<csv_rio, df_rio, df_rio_diario, csv_clima, df_clima_diario,
                   df_final, arquivo_saida>>
    /\ UNCHANGED <<appVars, apiVars>>

\* line 99: daily sum
ResampleClima ==
    /\ pc_proc = "clima_parseado"
    /\ df_clima_diario' = ClimaDiario(df_clima)
    /\ pc_proc' = "juntar"
    /\ UNCHANGED <<csv_rio, df_rio, df_rio_diario, csv_clima, df_clima,
                   df_final, arquivo_saida>>
    /\ UNCHANGED <<appVars, apiVars>>

\* lines 115-121: join, zero-fill of the rain column, removal of the rows
\* that still miss a value.  csv_clima and df_clima are not read after line
\* 99 and are released here.
Consolidar ==
    /\ pc_proc = "juntar"
    /\ df_final' = Dropna(FillnaZero(Join(df_rio_diario, df_clima_diario)),
                          {"Nivel_m", "Precipitacao_mm"})
    /\ csv_clima' = <<>>
    /\ df_clima' = <<>>
    /\ pc_proc' = "salvar"
    /\ UNCHANGED <<csv_rio, df_rio, df_rio_diario, df_clima_diario,
                   arquivo_saida>>
    /\ UNCHANGED <<appVars, apiVars>>

\* lines 124-129: the date becomes the column Data and the file is written
Salvar ==
    /\ pc_proc = "salvar"
    /\ arquivo_saida' =
          <<[i \in 1..Len(df_final) |->
                [Data |-> df_final[i].Timestamp, Nivel_m |-> df_final[i].Nivel_m,
                 Precipitacao_mm |-> df_final[i].Precipitacao_mm]]>>
    /\ pc_proc' = "fim"
    /\ UNCHANGED <<csv_rio, df_rio, df_rio_diario, csv_clima, df_clima,
                   df_clima_diario, df_final>>
    /\ UNCHANGED <<appVars, apiVars>>

-----------------------------------------------------------------------------
(* process_data.py *)

\* The API readings carry an instant 1..MaxStamp, two instants per calendar
\* day: instants 1 and 2 fall on day 1, instants 3 and 4 on day 2, ...
DiaDoInstante(t) == (t + 1) \div 2

DiaDeApi(r) == DiaDoInstante(r.data)

DiasDeApi(df) == [i \in 1..Len(df) |-> DiaDeApi(df[i])]

\* the tables of 2..MaxRows rows over the row set R, up to row order: the
\* concatenation of two yearly frames that both hold rows (line 145)
ApiTables(R) == {t \in Tables(R) : Len(t) >= 2}

InstanteTexts == {Stamp(t) : t \in 1..MaxStamp} \cup {Ilegivel}

\* the CHUVA field of the INMET API: "0", "2.4", and a field that is no number
ChuvaTexts == { Num(<<"0">>), Num(<<"2", ".", "4">>), Num(<<"-">>) }

\* the Nivel_1 field of the ANA file: "1", "3", and a field that is no number
NivelTexts == { Num(<<"1">>), Num(<<"3">>), Num(<<"-">>) }

ChuvaFrames == ApiTables([data : InstanteTexts, CHUVA : ChuvaTexts])

NivelFrames == ApiTables([data : InstanteTexts, Nivel_1 : NivelTexts])

\* Series.fillna(0)
Fillna0(cell) == IF cell = NaN THEN Num(0) ELSE cell

\* line 94: pd.to_numeric(..., errors='coerce').fillna(0)
ChuvaDe(chuva) == Fillna0(ToNumeric(chuva))

\* line 105: pd.to_numeric(..., errors='coerce')
NivelCmDe(nivel) == ToNumeric(nivel)

\* the rows of one side of the merge that carry the key t
RowsAt(df, t) == SelectSeq(df, LAMBDA r : r.data = t)

\* the merged rows of key t: the pairs of a left row and a right row with
\* that key (every pair, when the key repeats), or the rows of the one side
\* that has it with the other side's column missing
MergeAt(left, right, t) ==
    LET L == RowsAt(left, t)
        R == RowsAt(right, t)
    IN  IF L = <<>>
        THEN [j \in 1..Len(R) |->
                [data |-> t, precipitacao_mm |-> NaN, nivel_cm |-> R[j].nivel_cm]]
        ELSE IF R = <<>>
        THEN [i \in 1..Len(L) |->
                [data |-> t, precipitacao_mm |-> L[i].precipitacao_mm, nivel_cm |-> NaN]]
        ELSE [k \in 1..(Len(L) * Len(R)) |->
                [data |-> t,
                 precipitacao_mm |-> L[((k - 1) \div Len(R)) + 1].precipitacao_mm,
                 nivel_cm |-> R[((k - 1) % Len(R)) + 1].nivel_cm]]

RECURSIVE MergeKeys(_, _, _)
MergeKeys(left, right, keys) ==
    IF keys = <<>> THEN <<>>
    ELSE MergeAt(left, right, Head(keys)) \o MergeKeys(left, right, Tail(keys))

\* line 111: pd.merge(df_chuva, df_nivel, left_index=True, right_index=True,
\* how='outer'), keys in ascending order
MergeOuter(left, right) ==
    MergeKeys(left, right,
              Ascending({left[i].data : i \in 1..Len(left)}
                        \cup {right[j].data : j \in 1..Len(right)}))

\* lines 116-117: daily sum of the rain column and daily mean of the level
\* column of the merged frame
Diario(df) ==
    LET bins == DailyBins({DiaDeApi(df[i]) : i \in 1..Len(df)})
    IN  [b \in 1..Len(bins) |->
            [data |-> bins[b],
             precipitacao_mm |-> SumOn(df, "precipitacao_mm", bins[b], DiasDeApi(df)),
             nivel_cm |-> MeanOn(df, "nivel_cm", bins[b], DiasDeApi(df))]]

\* line 120: fillna(method='ffill') of the level column
RECURSIVE FFill(_, _)
FFill(df, i) ==
    IF i = 0 THEN <<>>
    ELSE LET before == FFill(df, i - 1)
             filled == IF df[i].nivel_cm = NaN /\ i > 1
                       THEN before[i - 1].nivel_cm ELSE df[i].nivel_cm
         IN  Append(before, [df[i] EXCEPT !.nivel_cm = filled])

\* lines 127-131: nivel_m = nivel_cm / 100 and the final columns (ano and
\* dia_do_ano, functions of the date alone, are left out)
ColunasFinais(df) ==
    [i \in 1..Len(df) |->
        [data |-> df[i].data, precipitacao_mm |-> df[i].precipitacao_mm,
         nivel_m |-> Frac(df[i].nivel_cm[1], df[i].nivel_cm[2] * 100)]]

InitApi ==
    /\ pc_api = "buscar"
    /\ buscas = <<>>
    /\ json_chuva = <<>>
    /\ df_chuva = <<>>
    /\ csv_nivel = <<>>
    /\ df_nivel = <<>>
    /\ df_combinado = <<>>
    /\ df_diario = <<>>
    /\ df_resultado = <<>>
    /\ arquivo_comparativo = None

IdleApi ==
    /\ pc_api = "idle"
    /\ buscas = <<>>
    /\ json_chuva = <<>>
    /\ df_chuva = <<>>
    /\ csv_nivel = <<>>
    /\ df_nivel = <<>>
    /\ df_combinado = <<>>
    /\ df_diario = <<>>
    /\ df_resultado = <<>>
    /\ arquivo_comparativo = None

\* lines 139-142, in order: chuva 2024, chuva 2025, nivel 2024, nivel 2025.
\* A fetch returns a frame with rows ...
BuscaComDados ==
    /\ pc_api = "buscar"
    /\ Len(buscas) < NumBuscas
    /\ buscas' = Append(buscas, "dados")
    /\ UNCHANGED <<pc_api, json_chuva, df_chuva, csv_nivel, df_nivel,
                   df_combinado, df_diario, df_resultado, arquivo_comparativo>>
    /\ UNCHANGED <<appVars, procVars>>

\* ... or an empty frame: the request failed (lines 45-47, 76-81) or the
\* answer held no rows
BuscaVazia ==
    /\ pc_api = "buscar"
    /\ Len(buscas) < NumBuscas
    /\ buscas' = Append(buscas, "vazio")
    /\ UNCHANGED <<pc_api, json_chuva, df_chuva, csv_nivel, df_nivel,
                   df_combinado, df_diario, df_resultado, arquivo_comparativo>>
    /\ UNCHANGED <<appVars, procVars>>

\* a guard that looks at the first fetched frame only
AlgumVazioNoPrimeiro == buscas[1] = "vazio"

\* line 145: any([df.empty for df in [...]]) over the four fetched frames
AlgumVazio == \E i \in 1..Len(buscas) : buscas[i] = "vazio"

\* lines 145, 152-153: some frame is empty, nothing is processed
Interrompido ==
    /\ pc_api = "buscar"
    /\ Len(buscas) = NumBuscas
    /\ AlgumVazio
    /\ pc_api' = "interrompido"
    /\ UNCHANGED <<buscas, json_chuva, df_chuva, csv_nivel, df_nivel,
                   df_combinado, df_diario, df_resultado, arquivo_comparativo>>
    /\ UNCHANGED <<appVars, procVars>>

\* lines 145-146, 90-96: processar_dados is entered and the rain frames are
\* concatenated and typed.  The rows of the fetched frames are first read
\* here, so this is where the model draws them.  pd.to_datetime raises on a
\* field it cannot read and nothing catches it.
ProcessaChuva ==
    /\ pc_api = "buscar"
    /\ Len(buscas) = NumBuscas
    /\ ~AlgumVazio
    /\ json_chuva' \in ChuvaFrames
    /\ IF \A i \in 1..Len(json_chuva') : Parsable(json_chuva'[i].data)
       THEN /\ df_chuva' = [i \in 1..Len(json_chuva') |->
                              [data |-> json_chuva'[i].data.quando,
                               precipitacao_mm |-> ChuvaDe(json_chuva'[i].CHUVA)]]
            /\ pc_api' = "nivel"
       ELSE /\ df_chuva' = df_chuva
            /\ pc_api' = "erro_chuva"
    /\ UNCHANGED <<buscas, csv_nivel, df_nivel, df_combinado, df_diario,
                   df_resultado, arquivo_comparativo>>
    /\ UNCHANGED <<appVars, procVars>>

\* lines 99-107: the level frames are concatenated and typed.  json_chuva is
\* not read after line 94 and is released here.
ProcessaNivel ==
    /\ pc_api = "nivel"
    /\ csv_nivel' \in NivelFrames
    /\ json_chuva' = <<>>
    /\ IF \A i \in 1..Len(csv_nivel') : Parsable(csv_nivel'[i].data)
       THEN /\ df_nivel' = [i \in 1..Len(csv_nivel') |->
                              [data |-> csv_nivel'[i].data.quando,
                               nivel_cm |-> NivelCmDe(csv_nivel'[i].Nivel_1)]]
            /\ pc_api' = "combinar"
       ELSE /\ df_nivel' = df_nivel
            /\ pc_api' = "erro_nivel"
    /\ UNCHANGED <<buscas, df_chuva, df_combinado, df_diario, df_resultado,
                   arquivo_comparativo>>
    /\ UNCHANGED <<appVars, procVars>>

\* line 111: the two typed frames are merged on the instant.  csv_nivel is
\* not read after line 105 and is released here.
Combinar ==
    /\ pc_api = "combinar"
    /\ df_combinado' = MergeOuter(df_chuva, df_nivel)
    /\ csv_nivel' = <<>>
    /\ pc_api' = "reamostrar"
    /\ UNCHANGED <<buscas, json_chuva, df_chuva, df_nivel, df_diario,
                   df_resultado, arquivo_comparativo>>
    /\ UNCHANGED <<appVars, procVars>>

\* lines 116-117: the merged frame is resampled to one row per day
Reamostrar ==
    /\ pc_api = "reamostrar"
    /\ df_diario' = Diario(df_combinado)
    /\ pc_api' = "preencher"
    /\ UNCHANGED <<buscas, json_chuva, df_chuva, csv_nivel, df_nivel,
                   df_combinado, df_resultado, arquivo_comparativo>>
    /\ UNCHANGED <<appVars, procVars>>

\* lines 120-134: forward fill of the level, removal of the leading days
\* without a level, final columns; processar_dados returns
Preencher ==
    /\ pc_api = "preencher"
    /\ df_resultado' =
          ColunasFinais(Dropna(FFill(df_diario, Len(df_diario)), {"nivel_cm"}))
    /\ pc_api' = "salvar"
    /\ UNCHANGED <<buscas, json_chuva, df_chuva, csv_nivel, df_nivel,
                   df_combinado, df_diario, arquivo_comparativo>>
    /\ UNCHANGED <<appVars, procVars>>

\* lines 149-151: dados_comparativos_2024_2025.csv is written
SalvarComparativo ==
    /\ pc_api = "salvar"
    /\ arquivo_comparativo' = <<df_resultado>>
    /\ pc_api' = "fim"
    /\ UNCHANGED <<buscas, json_chuva, df_chuva, csv_nivel, df_nivel,
                   df_combinado, df_diario, df_resultado>>
    /\ UNCHANGED <<appVars, procVars>>

-----------------------------------------------------------------------------
(* app.py: calcular_correlacao_com_lag *)

\* line 43: k is produced by range(1, max_lag + 1)
InRange(k, maxlag) == 1 <= k /\ k <= maxlag

\* max() that keeps the last of several maximal items
RECURSIVE PyMaxLast(_, _, _)
PyMaxLast(items, i, best) ==
    IF i > Len(items) THEN best
    ELSE PyMaxLast(items, i + 1,
             IF best = 0 \/ ~FracLess(items[i].corr, items[best].corr)
             THEN i ELSE best)

\* max(correlacoes, key=correlacoes.get): scans the keys in insertion order
\* and replaces the running maximum only by a strictly greater value; the
\* result is the position of the chosen item (best = 0: nothing seen yet)
RECURSIVE PyMax(_, _, _)
PyMax(items, i, best) ==
    IF i > Len(items) THEN best
    ELSE PyMax(items, i + 1,
             IF best = 0 \/ FracLess(items[best].corr, items[i].corr)
             THEN i ELSE best)

Keys(items) == {items[i].lag : i \in 1..Len(items)}

Get(items, k) == items[CHOOSE i \in 1..Len(items) : items[i].lag = k].corr

\* Python truthiness of the value tested by `if melhor_lag:`
Truthy(v) == v # None /\ v # Num(0)

\* the dashboard testing the coefficient instead of the lag
SuccessBranchOnCorr(mlag, mcorr) == mcorr # None /\ mcorr[1] # 0

\* line 150: `if melhor_lag:`
SuccessBranch(mlag, mcorr) == Truthy(mlag)

-----------------------------------------------------------------------------
(* app.py as a state machine *)

\* a frame with one row per date of S, in date order
Frame(S, niv, chv) ==
    LET ds == Ascending(S)
    IN  [i \in 1..Len(ds) |->
            [Data |-> ds[i], Nivel_m |-> Num(niv[ds[i]]),
             Precipitacao_mm |-> Num(chv[ds[i]])]]

\* line 148 has called the function on a period slice of the consolidated
\* frame and line 42 has run: the frame has one row per date on which the
\* level is defined, both columns numeric
Init ==
    /\ pc = "loop"
    /\ \E S \in SUBSET Days :
         \E niv \in [S -> NivelValues], chv \in [S -> ChuvaValues] :
            df_corr = Frame(S, niv, chv)
    /\ max_lag \in 1..MaxLag
    /\ lag = 1
    /\ correlacoes = <<>>
    /\ acumuladas = <<>>
    /\ todas_correlacoes = None
    /\ melhor_lag = None
    /\ melhor_corr = None
    /\ branch = "none"
    /\ chuva_plot = None
    /\ IdleProc
    /\ IdleApi

\* lines 43-52: one iteration of the for loop
LoopIteration ==
    /\ pc = "loop"
    /\ InRange(lag, max_lag)
    /\ acumuladas' = Append(acumuladas, ChuvaAcumulada(df_corr, lag))
    /\ LET corr == Corr(Column(df_corr, "Nivel_m"), acumuladas'[lag])
       IN  correlacoes' = IF NotNa(corr)
                          THEN Append(correlacoes, [lag |-> lag, corr |-> corr])
                          ELSE correlacoes
    /\ lag' = lag + 1
    /\ UNCHANGED <<pc, df_corr, max_lag, todas_correlacoes, melhor_lag,
                   melhor_corr, branch, chuva_plot>>
    /\ UNCHANGED <<procVars, apiVars>>

\* lines 54-61: the loop is over, the function returns
Return ==
    /\ pc = "loop"
    /\ ~InRange(lag, max_lag)
    /\ IF correlacoes = <<>>
       THEN /\ melhor_lag' = None
            /\ melhor_corr' = None
            /\ todas_correlacoes' = None
       ELSE LET best == PyMax(correlacoes, 1, 0)
            IN  /\ melhor_lag' = Num(correlacoes[best].lag)
                /\ melhor_corr' = correlacoes[best].corr
                /\ todas_correlacoes' = <<correlacoes>>
    /\ pc' = "returned"
    /\ UNCHANGED <<df_corr, max_lag, lag, correlacoes, acumuladas, branch,
                   chuva_plot>>
    /\ UNCHANGED <<procVars, apiVars>>

\* lines 150-197: the success arm with its scatter series, or the warning
Render ==
    /\ pc = "returned"
    /\ IF SuccessBranch(melhor_lag, melhor_corr)
       THEN /\ branch' = "success"
            /\ chuva_plot' = <<ChuvaAcumulada(df_corr, Val(melhor_lag))>>
       ELSE /\ branch' = "warning"
            /\ chuva_plot' = None
    /\ pc' = "rendered"
    /\ UNCHANGED <<df_corr, max_lag, lag, correlacoes, acumuladas,
                   todas_correlacoes, melhor_lag, melhor_corr>>
    /\ UNCHANGED <<procVars, apiVars>>

Next == LoopIteration \/ Return \/ Render

Spec == Init /\ [][Next]_vars

-----------------------------------------------------------------------------
(* The consolidation scripts as a state machine *)

IdleApp ==
    /\ pc = "idle"
    /\ df_corr = <<>>
    /\ max_lag = 0
    /\ lag = 1
    /\ correlacoes = <<>>
    /\ acumuladas = <<>>
    /\ todas_correlacoes = None
    /\ melhor_lag = None
    /\ melhor_corr = None
    /\ branch = "none"
    /\ chuva_plot = None

\* one run of either script
InitPipe ==
    /\ IdleApp
    /\ \/ InitProc /\ IdleApi
       \/ IdleProc /\ InitApi

NextPipe ==
    \/ LerRio \/ RioNaoEncontrado \/ ParseRio \/ ResampleRio
    \/ LerClima \/ ClimaNaoEncontrado \/ ParseClima \/ ResampleClima
    \/ Consolidar \/ Salvar
    \/ BuscaComDados \/ BuscaVazia \/ Interrompido
    \/ ProcessaChuva \/ ProcessaNivel \/ Combinar \/ Reamostrar
    \/ Preencher \/ SalvarComparativo

SpecPipe == InitPipe /\ [][NextPipe]_vars

-----------------------------------------------------------------------------
(* Properties of the lag analysis (app.py), checked under Spec *)

Returned == pc \in {"returned", "rendered"}

Dates(df) == {df[i].Data : i \in 1..Len(df)}

\* total rain of the rows of df dated d-k .. d-1
CalendarSum(df, d, k) ==
    SumRange([j \in 1..Len(df) |->
                 IF d - k <= df[j].Data /\ df[j].Data <= d - 1
                 THEN Val(df[j].Precipitacao_mm) ELSE 0], 1, Len(df))

\* every defined value of acc is the rain of the k calendar days before
\* its date
CalendarAccumulated(df, acc, k) ==
    \A i \in 1..Len(df) :
        acc[i] # NaN => Val(acc[i]) = CalendarSum(df, df[i].Data, k)

\* C1: every defined accumulated-rain value of lag k at date d is the sum of
\* Precipitacao_mm over the k calendar days d-k .. d-1 (day d excluded), in
\* the loop of calcular_correlacao_com_lag and in the scatter series.
C1_CalendarDaysSum ==
    /\ \A k \in 1..Len(acumuladas) : CalendarAccumulated(df_corr, acumuladas[k], k)
    /\ chuva_plot # None =>
           CalendarAccumulated(df_corr, chuva_plot[1], Val(melhor_lag))

\* C2: the best lag is a key of the returned mapping, no key has a greater
\* coefficient, among the keys with the maximal coefficient it is the
\* smallest, and the best coefficient is the mapping's value at the best lag.
C2_BestLagIsSmallestArgmax ==
    (Returned /\ todas_correlacoes # None) =>
        LET items == todas_correlacoes[1]
            best  == Val(melhor_lag)
        IN  /\ melhor_lag # None
            /\ best \in Keys(items)
            /\ melhor_corr = Get(items, best)
            /\ \A k \in Keys(items) :
                  /\ ~FracLess(melhor_corr, Get(items, k))
                  /\ Get(items, k) = melhor_corr => best <= k

\* two lags share the maximal coefficient
C2_Witness ==
    /\ Returned
    /\ todas_correlacoes # None
    /\ \E k \in Keys(todas_correlacoes[1]) :
          /\ k > Val(melhor_lag)
          /\ Get(todas_correlacoes[1], k) = melhor_corr

\* the rows whose level and k-lag accumulated rain are both numeric
Paired(k) ==
    {i \in 1..Len(df_corr) :
        df_corr[i].Nivel_m # NaN /\ acumuladas[k][i] # NaN}

\* lag k has at least two paired observations and neither series is constant
\* over them
Defined(k) ==
    /\ k \in 1..Len(acumuladas)
    /\ \E i, j \in Paired(k) : df_corr[i].Nivel_m # df_corr[j].Nivel_m
    /\ \E i, j \in Paired(k) : acumuladas[k][i] # acumuladas[k][j]

\* C3: the keys of the mapping are exactly the lags k in 1..max_lag whose
\* level / accumulated-rain pairing has at least two pairs and nonzero
\* variance on both sides; every stored coefficient is a number.
C3_KeysAreDefinedLags ==
    /\ Keys(correlacoes) = {k \in 1..(lag - 1) : Defined(k)}
    /\ \A i \in 1..Len(correlacoes) : correlacoes[i].corr # NaN
    /\ Returned =>
          /\ Len(acumuladas) = max_lag
          /\ todas_correlacoes # None =>
                Keys(todas_correlacoes[1]) = {k \in 1..max_lag : Defined(k)}

\* a mapping is returned that leaves out a lag of the range
C3_Witness ==
    /\ Returned
    /\ todas_correlacoes # None
    /\ \E k \in 1..max_lag : k \notin Keys(todas_correlacoes[1])
    /\ \E k \in 2..max_lag : k \in Keys(todas_correlacoes[1])

\* C4: the function returns (None, None, None) exactly when no lag of
\* 1..max_lag has a defined coefficient, otherwise a best lag of the range;
\* the dashboard warns exactly in the first case and reports success exactly
\* when a best lag was found, whatever its coefficient.
C4_NoResultIsExplicit ==
    LET none == \A k \in 1..max_lag : ~Defined(k)
    IN  /\ Returned =>
              /\ none <=> melhor_lag = None
              /\ none <=> melhor_corr = None
              /\ none <=> todas_correlacoes = None
              /\ ~none => Val(melhor_lag) \in 1..max_lag
        /\ pc = "rendered" =>
              /\ branch = "warning" <=> none
              /\ branch = "success" <=> melhor_lag # None

\* a frame with rows but no defined coefficient reaches the warning
C4_Witness ==
    /\ pc = "rendered"
    /\ branch = "warning"
    /\ Len(df_corr) = MaxDay
    /\ melhor_lag = None

\* C5: a date contributes a pair to lag k only if the k calendar days before
\* it are all available in the frame.
C5_LookbackWindowAvailable ==
    \A k \in 1..Len(acumuladas) :
        \A i \in Paired(k) :
            \A e \in (df_corr[i].Data - k)..(df_corr[i].Data - 1) :
                e \in Dates(df_corr)

\* Row form of the exclusion: the first k rows of the frame never get a value
\* for lag k, and every later row gets the sum of the k rows before it.
RowWindowExclusion ==
    \A k \in 1..Len(acumuladas) :
        \A i \in 1..Len(df_corr) :
            acumuladas[k][i] =
                IF i <= k THEN NaN
                ELSE Num(SumRange([j \in 1..Len(df_corr) |->
                                      Val(df_corr[j].Precipitacao_mm)], i - k, i - 1))

-----------------------------------------------------------------------------
(* Properties of the consolidation scripts, checked under SpecPipe *)

DatesOf(df) == {df[i].Timestamp : i \in 1..Len(df)}

\* C6: the daily rain series of the resampling step has an entry only for
\* the days on which at least one rain reading was taken.
C6_SumOnlyObservedDays ==
    /\ pc_proc = "juntar" =>
          \A i \in 1..Len(df_clima_diario) :
              \E j \in 1..Len(df_clima) :
                  df_clima[j].Timestamp = df_clima_diario[i].Timestamp
    /\ pc_api = "preencher" =>
          \A i \in 1..Len(df_diario) :
              df_diario[i].precipitacao_mm # NaN =>
                  \E j \in 1..Len(df_chuva) :
                      DiaDoInstante(df_chuva[j].data) = df_diario[i].data

\* C7: the consolidated frame has one row for each date on which the level
\* is defined and no other; the row carries that level and the day's rain
\* total if the rain series has the date, 0 otherwise.
C7_ConsolidatedDates ==
    pc_proc \in {"salvar", "fim"} =>
        LET union == DatesOf(df_rio_diario) \cup DatesOf(df_clima_diario)
            level(d) == {df_rio_diario[i].Nivel_m :
                            i \in {j \in 1..Len(df_rio_diario) :
                                      df_rio_diario[j].Timestamp = d}} \ {NaN}
            rain(d)  == {df_clima_diario[i].Precipitacao_mm :
                            i \in {j \in 1..Len(df_clima_diario) :
                                      df_clima_diario[j].Timestamp = d}}
        IN  /\ DatesOf(df_final) = {d \in union : level(d) # {}}
            /\ \A i, j \in 1..Len(df_final) :
                  i < j => df_final[i].Timestamp < df_final[j].Timestamp
            /\ \A i \in 1..Len(df_final) :
                  LET d == df_final[i].Timestamp
                  IN  /\ df_final[i].Nivel_m \in level(d)
                      /\ IF rain(d) = {}
                         THEN df_final[i].Precipitacao_mm = Num(0)
                         ELSE df_final[i].Precipitacao_mm \in rain(d)

\* a date with rain and no level, a date with level and no rain entry, and a
\* date with both and rain
C7_Witness ==
    /\ pc_proc = "salvar"
    /\ DatesOf(df_clima_diario) \ DatesOf(df_rio_diario) # {}
    /\ DatesOf(df_rio_diario) \ DatesOf(df_clima_diario) # {}
    /\ \E i \in 1..Len(df_final) :
          /\ df_final[i].Timestamp \in DatesOf(df_clima_diario)
          /\ Val(df_final[i].Precipitacao_mm) > 0

\* the daily mean of column c is the arithmetic mean of the numeric readings
\* of obs on each day, and a day without one has no value
MeanOfReadings(obs, c, dias, daily, dateCol) ==
    \A d \in 1..(MaxDia + MaxStamp) :
        LET rows == {i \in 1..Len(daily) : daily[i][dateCol] = d}
        IN  IF CountOn(obs, c, d, dias) >= 1
            THEN /\ rows # {}
                 /\ \A i \in rows :
                       daily[i][c] = Frac(TotalOn(obs, c, d, dias),
                                          CountOn(obs, c, d, dias))
            ELSE \A i \in rows : daily[i][c] = NaN

\* C8: the daily level of the resampling step is, for each day with n >= 1
\* numeric readings, the arithmetic mean of exactly those n readings; a day
\* without a numeric reading has no value.
C8_MeanOfDayReadings ==
    /\ pc_proc = "clima" =>
          /\ MeanOfReadings(df_rio, "Nivel_m", DiasDe(df_rio), df_rio_diario, "Timestamp")
          /\ \A i \in 1..Len(df_rio_diario) : df_rio_diario[i].Nivel_m # NaN
    /\ pc_api = "preencher" =>
          MeanOfReadings(df_nivel, "nivel_cm", DiasDeApi(df_nivel), df_diario, "data")

\* C9: in every parsing path a value field that is no number becomes a
\* missing value of the parsed series, never 0, and parsing goes on.
C9_BadValueIsAbsent ==
    /\ pc_proc = "rio_parseado" =>
          \A i \in 1..Len(csv_rio) :
              NivelDe(csv_rio[i].Medicao_str) = NaN => df_rio[i].Nivel_m = NaN
    /\ pc_proc = "exit_clima_erro" =>
          \E i \in 1..Len(csv_clima) : ~Parsable(csv_clima[i].Timestamp)
    /\ pc_proc = "clima_parseado" =>
          \A i \in 1..Len(csv_clima) :
              AstypeFloatRaises(csv_clima[i].Precipitacao_mm) =>
                  df_clima[i].Precipitacao_mm = NaN
    /\ pc_api = "nivel" =>
          \A i \in 1..Len(json_chuva) :
              ~IsNumeral(Val(json_chuva[i].CHUVA)) =>
                  df_chuva[i].precipitacao_mm = NaN
    /\ pc_api = "combinar" =>
          \A i \in 1..Len(csv_nivel) :
              ~IsNumeral(Val(csv_nivel[i].Nivel_1)) => df_nivel[i].nivel_cm = NaN

\* C10: a source whose rows include one with a readable timestamp is parsed:
\* the rows with an unreadable timestamp are dropped, the others are kept.
C10_BadTimestampDropsRow ==
    /\ pc_proc = "erro_rio" =>
          \A i \in 1..Len(csv_rio) : ~Parsable(csv_rio[i].Timestamp)
    /\ pc_proc = "rio_parseado" =>
          Len(df_rio) = Cardinality({i \in 1..Len(csv_rio) :
                                        Parsable(csv_rio[i].Timestamp)})
    /\ pc_proc = "exit_clima_erro" =>
          \/ \A i \in 1..Len(csv_clima) : ~Parsable(csv_clima[i].Timestamp)
          \/ \E i \in 1..Len(csv_clima) :
                AstypeFloatRaises(csv_clima[i].Precipitacao_mm)
    /\ pc_proc = "clima_parseado" =>
          Len(df_clima) = Cardinality({i \in 1..Len(csv_clima) :
                                          Parsable(csv_clima[i].Timestamp)})
    /\ pc_api = "erro_chuva" =>
          \A i \in 1..Len(json_chuva) : ~Parsable(json_chuva[i].data)
    /\ pc_api = "erro_nivel" =>
          \A i \in 1..Len(csv_nivel) : ~Parsable(csv_nivel[i].data)

-----------------------------------------------------------------------------
(* Properties of the runs as a whole, checked under SpecPipe *)

\* a fetch of process_data.py came back without rows
FetchFailed == \E i \in 1..Len(buscas) : buscas[i] = "vazio"

\* an input file of 1_processamento_dados.py was missing
FileMissing == pc_proc \in {"exit_rio", "exit_clima"}

\* C11: when a raw source cannot be supplied (a fetch without rows, a
\* missing input file) the run halts: no later stage works on the partial
\* inputs (processar_dados is never entered, nothing is joined) and no
\* output file is written.
C11_SourceUnavailableHalts ==
    /\ [](FetchFailed =>
            /\ pc_api \in {"buscar", "interrompido"}
            /\ json_chuva = <<>> /\ df_chuva = <<>>
            /\ csv_nivel = <<>> /\ df_nivel = <<>>
            /\ df_combinado = <<>> /\ df_diario = <<>> /\ df_resultado = <<>>
            /\ arquivo_comparativo = None)
    /\ [](pc_proc = "exit_rio" =>
            /\ df_rio = <<>> /\ df_rio_diario = <<>>
            /\ csv_clima = <<>> /\ df_clima = <<>> /\ df_clima_diario = <<>>)
    /\ [](FileMissing =>
            /\ df_clima = <<>> /\ df_clima_diario = <<>>
            /\ df_final = <<>> /\ arquivo_saida = None)
    /\ [][(FileMissing \/ pc_api = "interrompido") =>
              UNCHANGED <<procVars, apiVars>>]_vars

\* C11 witness: three fetches brought rows, one did not, and the run has
\* stopped at the guard without an output file
C11_Witness ==
    /\ pc_api = "interrompido"
    /\ \E i \in 1..Len(buscas) : buscas[i] = "vazio"
    /\ Cardinality({i \in 1..Len(buscas) : buscas[i] = "dados"}) = NumBuscas - 1
    /\ arquivo_comparativo = None

\* a series with at most one row per calendar day (dias[i] is the day of
\* row i)
OnePerDay(dias) ==
    \A i, j \in 1..Len(dias) : dias[i] = dias[j] => i = j

\* C12: the stages run in the order Parse -> Resample -> Align: whenever two
\* series are merged, each of them already has one value per calendar day,
\* and nothing is resampled once the merge has been made.
C12_ResampleBeforeMerge ==
    /\ [][df_final' # df_final =>
              /\ OnePerDay(DiasDe(df_rio_diario))
              /\ OnePerDay(DiasDe(df_clima_diario))]_vars
    /\ [][df_combinado' # df_combinado =>
              /\ OnePerDay(DiasDeApi(df_chuva))
              /\ OnePerDay(DiasDeApi(df_nivel))]_vars
    /\ [][df_diario' # df_diario => df_combinado = <<>>]_vars
    /\ [][df_rio_diario' # df_rio_diario => df_final = <<>>]_vars
    /\ [][df_clima_diario' # df_clima_diario => df_final = <<>>]_vars

\* the order of 1_processamento_dados.py alone: both daily series exist
\* with one row per day when the join is made
ScriptResamplesBeforeJoin ==
    [][df_final' # df_final =>
          /\ pc_proc = "juntar"
          /\ OnePerDay(DiasDe(df_rio_diario))
          /\ OnePerDay(DiasDe(df_clima_diario))]_vars

====
